---- MODULE Spec2Model ----
(***************************************************************************)
(* The three driver scripts of the repository as one state machine:        *)
(*   ex1  applications/ProteinMPNN/examples/script_example_1.py            *)
(*   ex3  applications/ProteinMPNN/examples/script_example_3.py            *)
(*   gpt  applications/protgpt2/protgpt.py                                 *)
(* One run of a script is a walk of pc from "parse" to "done" or "failed". *)
(* The filesystem (the output directory, the files in it) outlives a run;  *)
(* Restart begins the next invocation of a script on the same filesystem.  *)
(*                                                                         *)
(* Strings the code handles as text are sequences of tokens here, so that  *)
(* os.path.join and f.write(text + '\n') are computed, not assumed.        *)
(* Assertions are enabled (the scripts start "#!/usr/bin/env python",      *)
(* without -O).                                                            *)
(***************************************************************************)
EXTENDS Integers, Sequences, FiniteSets, TLC

VARIABLES
    script,      \* which script this run executes
    pc,          \* position of the run in main()
    args,        \* the parsed command line (argparse Namespace)
    fs,          \* the directories /app and /app/output, and whether mkdir is permitted
    dirFiles,    \* artifacts the external programs left in /app/output
    out_file,    \* /app/output/output_file.txt: [exists, data]
    calls,       \* the external calls this run has started, in order
    a,           \* returncode of the last completed subprocess.run
    sequences,   \* protgpt.py's local `sequences`: [bound, val]
    i,           \* protgpt.py's loop variable: iterations completed
    written,     \* how many f.write calls the run has made
    opened,      \* the run has opened the output file
    reported,    \* the run has printed the average time per iteration
    err,         \* why the run failed ("none" while it has not)
    created,     \* this run's os.makedirs created /app/output
    start,       \* fs, out_file, dirFiles and ensured as the run found them
    ensured      \* --output values whose directory step has completed without error

vars == <<script, pc, args, fs, dirFiles, out_file, calls, a, sequences, i,
          written, opened, reported, err, created, start, ensured>>

-----------------------------------------------------------------------------
(* Bounds *)

\* largest --iterations value tried
MaxIter == 2

\* largest --num_return_sequences value tried
MaxRet == 2

-----------------------------------------------------------------------------
(* Data *)

Scripts == {"ex1", "ex3", "gpt"}

\* values given to --precision / --dtype on the command line
PrecisionArgs == {"float32", "bfloat16", "float16"}

\* choices=['float32', 'bfloat16']
PrecisionChoices == {"float32", "bfloat16"}

\* values given to --output: /app/output and /app/output/
OutputArgs == { <<"/", "app", "/", "output">>, <<"/", "app", "/", "output", "/">> }

\* values given to --iterations
IterationArgs == (-1) .. MaxIter

\* what one generated_text can be; the second holds a line terminator
Texts == { <<"M">>, <<"M", "\n", "K">> }

\* returncode of a child process: success, failure, killed by a signal
ReturnCodes == {0, 1, -9}

Kinds == {"absent", "dir", "file"}

\* states of /app and /app/output: an entry exists only inside a directory
FsStates ==
    { f \in [app : Kinds, output : Kinds, perm : BOOLEAN] :
        f.output # "absent" => f.app = "dir" }

NoFile == [exists |-> FALSE, data |-> <<>>]

\* content a previous, unrelated writer left in the output file
OldFile == [exists |-> TRUE, data |-> <<"O", "\n">>]

Unbound == [bound |-> FALSE, val |-> <<>>]

-----------------------------------------------------------------------------
(* Text helpers *)

RECURSIVE SplitOn(_, _)
\* the pieces of s between occurrences of sep (str.split(sep))
SplitOn(s, sep) ==
    IF s = <<>> THEN << <<>> >>
    ELSE LET rest == SplitOn(Tail(s), sep)
         IN  IF Head(s) = sep
             THEN << <<>> >> \o rest
             ELSE << <<Head(s)>> \o Head(rest) >> \o Tail(rest)

\* the components of a path: what lies between its separators
Components(path) == SelectSeq(SplitOn(path, "/"), LAMBDA c : c # <<>>)

\* the lines of a text file: every "\n" ends one
Lines(data) ==
    LET pieces == SplitOn(data, "\n")
    IN  IF pieces[Len(pieces)] = <<>>
        THEN SubSeq(pieces, 1, Len(pieces) - 1)
        ELSE pieces

\* os.path.join(a, b) for a relative b
JoinNoSeparator(p, name) == p \o <<name>>

PathJoin(p, name) ==
    IF p = <<>> THEN <<name>>
    ELSE IF p[Len(p)] = "/" THEN p \o <<name>>
    ELSE p \o <<"/", name>>

-----------------------------------------------------------------------------
(* Filesystem *)

AppPath == << <<"app">> >>
OutputPath == << <<"app">>, <<"output">> >>

\* what a path's components name: "absent", "dir", "file", or "notdir" when a
\* component on the way is a regular file (ENOTDIR)
KindOf(f, comps) ==
    IF comps = AppPath THEN f.app
    ELSE IF comps = OutputPath
         THEN (IF f.app = "file" THEN "notdir" ELSE f.output)
    ELSE "absent"

\* os.path.exists(path): stat succeeds; a trailing separator demands a directory
PathExists(f, path) ==
    LET k == KindOf(f, Components(path))
    IN  /\ path # <<>>
        /\ k \in {"dir", "file"}
        /\ (path[Len(path)] = "/" => k = "dir")

\* os.makedirs(path) for a path under /app: [fs, err]
MakeDirs(f, path) ==
    LET comps == Components(path)
        f1 == IF f.app = "absent" /\ f.perm THEN [f EXCEPT !.app = "dir"] ELSE f
    IN  IF comps # OutputPath \/ f.app = "file" \/ f.output # "absent"
        THEN [fs |-> f, err |-> "io"]             \* NotADirectoryError, FileExistsError
        ELSE IF ~f.perm THEN [fs |-> f, err |-> "io"]   \* PermissionError
        ELSE [fs |-> [f1 EXCEPT !.output = "dir"], err |-> "none"]

\* the directory /app/output is there to receive a file
DirReady(f) == f.app = "dir" /\ f.output = "dir"

-----------------------------------------------------------------------------
(* Command lines *)

ArgsFor(s) ==
    IF s = "gpt"
    THEN [output : {<<>>}, precision : PrecisionArgs,
          iterations : IterationArgs, num_return_sequences : 1 .. MaxRet]
    ELSE [output : OutputArgs, precision : PrecisionArgs,
          iterations : {1}, num_return_sequences : {1}]

ChoicesAny(v) == TRUE

\* argparse's check of a value against choices=[...]
ChoiceOK(v) == v \in PrecisionChoices

Init ==
    /\ script \in Scripts
    /\ pc = "parse"
    /\ args \in ArgsFor(script)
    /\ fs \in FsStates
    /\ dirFiles = {}
    /\ out_file \in (IF DirReady(fs) THEN {NoFile, OldFile} ELSE {NoFile})
    /\ calls = <<>>
    /\ a = 0
    /\ sequences = Unbound
    /\ i = 0
    /\ written = 0
    /\ opened = FALSE
    /\ reported = FALSE
    /\ err = "none"
    /\ created = FALSE
    /\ ensured = {}
    /\ start = [fs |-> fs, file |-> out_file, dirFiles |-> dirFiles, ensured |-> ensured]

\* the run ends with an uncaught exception or argparse's exit
Fail(kind) == pc' = "failed" /\ err' = kind

\* args = parser.parse_args()
ParseArgs ==
    /\ pc = "parse"
    /\ IF ChoiceOK(args.precision)
       THEN /\ pc' = (IF script = "gpt" THEN "pipeline" ELSE "mkdir")
            /\ err' = err
       ELSE Fail("usage")
    /\ UNCHANGED <<script, args, fs, dirFiles, out_file, calls, a, sequences, i,
                   written, opened, reported, created, start, ensured>>

-----------------------------------------------------------------------------
(* script_example_1.py and script_example_3.py *)

EnsureAlwaysMakes(f, path) == MakeDirs(f, path)

\* if not os.path.exists(output_dir): os.makedirs(output_dir)
EnsureOutputDirectory(f, path) ==
    IF ~PathExists(f, path) THEN MakeDirs(f, path) ELSE [fs |-> f, err |-> "none"]

\* the directory step of a run, shared by the two scripts
EnsureStep(next) ==
    LET r == EnsureOutputDirectory(fs, args.output)
    IN  /\ fs' = r.fs
        /\ created' = (created \/ (~DirReady(fs) /\ DirReady(r.fs)))
        /\ IF r.err = "none"
           THEN /\ pc' = next
                /\ err' = err
                /\ ensured' = ensured \cup {args.output}
           ELSE /\ Fail(r.err)
                /\ ensured' = ensured
        /\ UNCHANGED <<script, args, dirFiles, out_file, calls, a, sequences, i,
                       written, opened, reported, start>>

\* path_for_parsed_chains = os.path.join(output_dir, "parsed_pdbs.jsonl")
PathForParsedChains == PathJoin(args.output, "parsed_pdbs.jsonl")

NoPath == <<>>

\* ['python', 'helper_scripts/parse_multiple_chains.py', '--input_path', ...,
\*  '--output_path', path_for_parsed_chains]
ParseCall ==
    [prog |-> "helper_scripts/parse_multiple_chains.py",
     output_path |-> PathForParsedChains, jsonl_path |-> NoPath,
     out_folder |-> NoPath, precision |-> "", state |-> "running", rc |-> 0]

\* ['python', 'protein_mpnn_run.py', '--jsonl_path', path_for_parsed_chains,
\*  '--out_folder', output_dir, ..., '--precision', args.precision]
MPNNCallEx1 ==
    [prog |-> "protein_mpnn_run.py",
     output_path |-> NoPath, jsonl_path |-> PathForParsedChains,
     out_folder |-> args.output, precision |-> args.precision,
     state |-> "running", rc |-> 0]

\* ['python', 'protein_mpnn_run.py', '--pdb_path', pdb_path, ...,
\*  '--out_folder', output_dir, ..., '--precision', args.precision]
MPNNCallEx3 ==
    [prog |-> "protein_mpnn_run.py",
     output_path |-> NoPath, jsonl_path |-> NoPath,
     out_folder |-> args.output, precision |-> args.precision,
     state |-> "running", rc |-> 0]

\* subprocess.run starts the child and blocks
StartCall(call, next) ==
    /\ calls' = Append(calls, call)
    /\ pc' = next
    /\ UNCHANGED <<script, args, fs, dirFiles, out_file, a, sequences, i,
                   written, opened, reported, err, created, start, ensured>>

\* the file a child creates at `path`: only inside the existing /app/output
Deposit(path) ==
    LET c == Components(path)
    IN  IF Len(c) = 3 /\ SubSeq(c, 1, 2) = OutputPath /\ DirReady(fs)
        THEN {c[3]} ELSE {}

\* the child ends: any returncode, and it has or has not left its artifact
FinishCall(target, next) ==
    \E rc \in ReturnCodes, w \in BOOLEAN :
        /\ calls' = [calls EXCEPT ![Len(calls)] =
                        [@ EXCEPT !.state = "done", !.rc = rc]]
        /\ a' = rc
        /\ dirFiles' = (IF w THEN dirFiles \cup Deposit(target) ELSE dirFiles)
        /\ pc' = next
        /\ UNCHANGED <<script, args, fs, out_file, sequences, i,
                       written, opened, reported, err, created, start, ensured>>

\* a check that lets the run go on whatever the returncode
AssertNothing(next) ==
    /\ pc' = next /\ err' = err
    /\ UNCHANGED <<script, args, fs, dirFiles, out_file, calls, a, sequences, i,
                   written, opened, reported, created, start, ensured>>

\* assert a.returncode == 0, "..."
AssertReturncode(next) ==
    /\ IF a = 0 THEN pc' = next /\ err' = err ELSE Fail("assert")
    /\ UNCHANGED <<script, args, fs, dirFiles, out_file, calls, a, sequences, i,
                   written, opened, reported, created, start, ensured>>

Ex1Ensure == script = "ex1" /\ pc = "mkdir" /\ EnsureStep("call1")

Ex1StartParse == script = "ex1" /\ pc = "call1" /\ StartCall(ParseCall, "wait1")

Ex1FinishParse ==
    script = "ex1" /\ pc = "wait1" /\ FinishCall(calls[Len(calls)].output_path, "assert1")

Ex1CheckParseNothing == script = "ex1" /\ pc = "assert1" /\ AssertNothing("call2")

Ex1CheckParse == script = "ex1" /\ pc = "assert1" /\ AssertReturncode("call2")

Ex1StartMPNN == script = "ex1" /\ pc = "call2" /\ StartCall(MPNNCallEx1, "wait2")

Ex1FinishMPNN ==
    script = "ex1" /\ pc = "wait2"
    /\ FinishCall(PathJoin(calls[Len(calls)].out_folder, "seqs"), "assert2")

Ex1CheckMPNN == script = "ex1" /\ pc = "assert2" /\ AssertReturncode("done")

Ex3Ensure == script = "ex3" /\ pc = "mkdir" /\ EnsureStep("call")

Ex3StartMPNN == script = "ex3" /\ pc = "call" /\ StartCall(MPNNCallEx3, "wait")

Ex3FinishMPNN ==
    script = "ex3" /\ pc = "wait"
    /\ FinishCall(PathJoin(calls[Len(calls)].out_folder, "seqs"), "assert")

Ex3CheckMPNN == script = "ex3" /\ pc = "assert" /\ AssertReturncode("done")

-----------------------------------------------------------------------------
(* protgpt.py *)

\* output_path = "/app/output/output_file.txt"
output_path == <<"/", "app", "/", "output", "/", "output_file.txt">>

\* one more entry of the run's call log, already completed
Logged(prog, ok) ==
    Append(calls, [prog |-> prog, output_path |-> NoPath, jsonl_path |-> NoPath,
                   out_folder |-> NoPath, precision |-> args.precision,
                   state |-> "done", rc |-> (IF ok THEN 0 ELSE 1)])

\* protgpt2 = pipeline('text-generation', model=model_path, torch_dtype=dtype):
\* it loads the model or raises
GptBuildPipeline ==
    /\ script = "gpt" /\ pc = "pipeline"
    /\ \E ok \in BOOLEAN :
        /\ calls' = Logged("pipeline", ok)
        /\ IF ok THEN pc' = "loop" /\ err' = err ELSE Fail("raised")
    /\ UNCHANGED <<script, args, fs, dirFiles, out_file, a, sequences, i,
                   written, opened, reported, created, start, ensured>>

\* a loop body that swallows the pipeline's exception and goes on
GptIterateSwallow ==
    /\ script = "gpt" /\ pc = "loop"
    /\ i < args.iterations
    /\ \E ok \in BOOLEAN, out \in [1 .. args.num_return_sequences -> Texts] :
        /\ calls' = Logged("protgpt2", ok)
        /\ sequences' = (IF ok THEN [bound |-> TRUE, val |-> out] ELSE sequences)
        /\ i' = i + 1
        /\ pc' = "loop" /\ err' = err
    /\ UNCHANGED <<script, args, fs, dirFiles, out_file, a,
                   written, opened, reported, created, start, ensured>>

\* one pass of `for i in range(args.iterations): sequences = protgpt2(...)`:
\* the pipeline returns num_return_sequences texts, or raises
GptIterate ==
    /\ script = "gpt" /\ pc = "loop"
    /\ i < args.iterations
    /\ \E ok \in BOOLEAN, out \in [1 .. args.num_return_sequences -> Texts] :
        /\ calls' = Logged("protgpt2", ok)
        /\ IF ok
           THEN /\ sequences' = [bound |-> TRUE, val |-> out]
                /\ i' = i + 1
                /\ pc' = "loop" /\ err' = err
           ELSE /\ Fail("raised")
                /\ UNCHANGED <<sequences, i>>
    /\ UNCHANGED <<script, args, fs, dirFiles, out_file, a,
                   written, opened, reported, created, start, ensured>>

\* range(args.iterations) is exhausted (at once when iterations <= 0)
GptLoopExit ==
    /\ script = "gpt" /\ pc = "loop"
    /\ i >= args.iterations
    /\ pc' = "open"
    /\ UNCHANGED <<script, args, fs, dirFiles, out_file, calls, a, sequences, i,
                   written, opened, reported, err, created, start, ensured>>

\* with open(output_path, 'w') as f: creates or truncates the file; raises
\* FileNotFoundError / NotADirectoryError when /app/output is no directory
GptOpen ==
    /\ script = "gpt" /\ pc = "open"
    /\ IF DirReady(fs)
       THEN /\ out_file' = [exists |-> TRUE, data |-> <<>>]
            /\ opened' = TRUE
            /\ pc' = "write" /\ err' = err
       ELSE /\ Fail("io")
            /\ UNCHANGED <<out_file, opened>>
    /\ UNCHANGED <<script, args, fs, dirFiles, calls, a, sequences, i,
                   written, reported, created, start, ensured>>

\* for seq in sequences: f.write(seq['generated_text'] + '\n')
\* (UnboundLocalError when the loop never assigned `sequences`)
GptWrite ==
    /\ script = "gpt" /\ pc = "write"
    /\ IF ~sequences.bound
       THEN Fail("unbound") /\ UNCHANGED <<out_file, written>>
       ELSE /\ out_file' = [out_file EXCEPT !.data =
                               @ \o sequences.val[written + 1] \o <<"\n">>]
            /\ written' = written + 1
            /\ pc' = (IF written' < Len(sequences.val) THEN "write" ELSE "report")
            /\ err' = err
    /\ UNCHANGED <<script, args, fs, dirFiles, calls, a, sequences, i,
                   opened, reported, created, start, ensured>>

\* print('Average time per iteration:', (toc - tic) / args.iterations, 'seconds')
GptReport ==
    /\ script = "gpt" /\ pc = "report"
    /\ IF args.iterations = 0
       THEN Fail("zerodiv") /\ reported' = reported
       ELSE pc' = "done" /\ err' = err /\ reported' = TRUE
    /\ UNCHANGED <<script, args, fs, dirFiles, out_file, calls, a, sequences, i,
                   written, opened, created, start, ensured>>

-----------------------------------------------------------------------------

\* if __name__ == "__main__": main(...) -- the next invocation of a script,
\* on the filesystem the earlier ones left
Restart ==
    /\ pc \in {"done", "failed"}
    /\ script' \in Scripts
    /\ args' \in ArgsFor(script')
    /\ pc' = "parse"
    /\ calls' = <<>>
    /\ a' = 0
    /\ sequences' = Unbound
    /\ i' = 0
    /\ written' = 0
    /\ opened' = FALSE
    /\ reported' = FALSE
    /\ err' = "none"
    /\ created' = FALSE
    /\ start' = [fs |-> fs, file |-> out_file, dirFiles |-> dirFiles,
                 ensured |-> ensured]
    /\ UNCHANGED <<fs, dirFiles, out_file, ensured>>

Next ==
    \/ ParseArgs
    \/ Ex1Ensure \/ Ex1StartParse \/ Ex1FinishParse \/ Ex1CheckParse
    \/ Ex1StartMPNN \/ Ex1FinishMPNN \/ Ex1CheckMPNN
    \/ Ex3Ensure \/ Ex3StartMPNN \/ Ex3FinishMPNN \/ Ex3CheckMPNN
    \/ GptBuildPipeline \/ GptIterate \/ GptLoopExit \/ GptOpen \/ GptWrite
    \/ GptReport
    \/ Restart

Spec == Init /\ [][Next]_vars
-----------------------------------------------------------------------------
(* Vocabulary of the properties *)

ParseProg == "helper_scripts/parse_multiple_chains.py"
MPNNProg == "protein_mpnn_run.py"

\* the run is over
Ended == pc \in {"done", "failed"}

\* the invocations of the protgpt2 pipeline this run has made
GptCalls == SelectSeq(calls, LAMBDA c : c.prog = "protgpt2")

\* the pipeline object was built (line 35 returned)
PipelineBuilt == Len(calls) >= 1 /\ calls[1].prog = "pipeline" /\ calls[1].rc = 0

\* an external call of this run has reported non-success
AnyCallFailed == \E k \in DOMAIN calls : calls[k].state = "done" /\ calls[k].rc # 0

\* a child process is running
Running == {k \in DOMAIN calls : calls[k].state = "running"}

-----------------------------------------------------------------------------
(* C1: in script_example_1, once the first external call                   *)
(* (parse_multiple_chains.py) has returned a non-zero status, the run's    *)
(* call log holds that one call and nothing else for the rest of the run   *)
(* (no retry, no protein_mpnn_run.py), and the run can only be at the      *)
(* assertion or have failed by it.                                         *)
C1_FailedParseAborts ==
    (script = "ex1" /\ Len(calls) >= 1 /\ calls[1].state = "done" /\ calls[1].rc # 0)
    => /\ Len(calls) = 1
       /\ calls[1].prog = ParseProg
       /\ pc \in {"assert1", "failed"}
       /\ (pc = "failed" => err = "assert")

C1_Witness ==
    /\ script = "ex1" /\ pc = "failed" /\ err = "assert"
    /\ Len(calls) = 1 /\ calls[1].prog = ParseProg /\ calls[1].rc # 0

(* C2: in every script, with a --precision / --dtype value outside         *)
(* {float32, bfloat16} the run never gets past argument parsing: it fails  *)
(* there, and the directories, the output file, the artifacts and the call *)
(* log are as the run found them.                                          *)
C2_BadPrecisionNoSideEffect ==
    (args.precision \notin PrecisionChoices)
    => /\ pc \in {"parse", "failed"}
       /\ (pc = "failed" => err = "usage")
       /\ fs = start.fs /\ ~created
       /\ out_file = start.file /\ ~opened /\ written = 0
       /\ dirFiles = start.dirFiles
       /\ calls = <<>>

C2_Witness ==
    /\ args.precision = "float16" /\ pc = "failed" /\ err = "usage"
    /\ script = "gpt" /\ ~DirReady(fs)

(* C3: in protgpt.py with --iterations N >= 1, when the pipeline was built *)
(* and no invocation failed, the ended run has invoked the pipeline        *)
(* exactly N times and the output file exists and its lines are exactly    *)
(* the generated texts of the last iteration, in order.                    *)
C3_FinalIterationPersisted ==
    (/\ script = "gpt" /\ args.iterations >= 1
     /\ Ended /\ PipelineBuilt /\ ~AnyCallFailed)
    => /\ Len(GptCalls) = args.iterations
       /\ out_file.exists
       /\ Lines(out_file.data) = sequences.val

(* C4: whenever a writer has been set to work on the output directory (a   *)
(* child process started with a path inside it, or protgpt.py about to     *)
(* open its output file), /app/output is a directory, and this run created *)
(* it if it was not one when the run began.                                *)
C4_DirectoryReadyWhenWriting ==
    (\/ script \in {"ex1", "ex3"} /\ Running # {}
     \/ script = "gpt" /\ pc = "open")
    => /\ DirReady(fs)
       /\ (~DirReady(start.fs) => created)

(* C5: in script_example_1 and script_example_3, when the output path is a *)
(* regular file at the start of the run, a run that gets past argument     *)
(* parsing fails in the directory step with a filesystem error and has     *)
(* started no external call.                                               *)
C5_CollisionAborts ==
    (/\ script \in {"ex1", "ex3"} /\ start.fs.output = "file"
     /\ ChoiceOK(args.precision) /\ pc \notin {"parse", "mkdir"})
    => /\ pc = "failed" /\ err = "io"
       /\ calls = <<>>

(* C6: a run that has terminated normally has seen every external call it  *)
(* started complete with success; and from a state in which a call has     *)
(* reported non-success the run's next step is failure (from "failed",     *)
(* only the next invocation follows).                                      *)
C6_FailureIsFatal ==
    /\ [](pc = "done" =>
            \A k \in DOMAIN calls : calls[k].state = "done" /\ calls[k].rc = 0)
    /\ [][AnyCallFailed =>
            (pc' = "failed" \/ (pc = "failed" /\ pc' = "parse"))]_vars

C6_Witness ==
    /\ script = "ex3" /\ pc = "failed" /\ err = "assert" /\ AnyCallFailed

(* C7: when the directory step of script_example_1 / script_example_3 has  *)
(* already completed without error for the same --output value, running it *)
(* again raises no error and leaves the directories as they were.          *)
C7_EnsureIdempotent ==
    (/\ script \in {"ex1", "ex3"} /\ args.output \in start.ensured
     /\ ChoiceOK(args.precision) /\ pc \notin {"parse", "mkdir"})
    => /\ err # "io"
       /\ fs = start.fs

C7_Witness ==
    /\ script \in {"ex1", "ex3"} /\ args.output \in start.ensured
    /\ pc \in {"call1", "call"}
    /\ DirReady(fs)

(* C8: in script_example_1 the protein_mpnn_run.py call is the second call *)
(* of the run, made when the first has completed; its --jsonl_path is the  *)
(* first call's --output_path, which names parsed_pdbs.jsonl directly in   *)
(* the output directory, and its --out_folder is that directory; at most   *)
(* one call is in progress.                                                *)
C8_ParsedChainsHandOff ==
    script = "ex1" =>
        /\ Cardinality(Running) <= 1
        /\ \A k \in DOMAIN calls :
              /\ (calls[k].prog = ParseProg) = (k = 1)
              /\ (calls[k].prog = MPNNProg) = (k = 2)
              /\ k = 1 =>
                    Components(calls[k].output_path)
                        = Components(args.output) \o << <<"parsed_pdbs.jsonl">> >>
              /\ k = 2 =>
                    /\ calls[1].state = "done"
                    /\ calls[k].jsonl_path = calls[1].output_path
                    /\ calls[k].out_folder = args.output

C8_Witness ==
    /\ script = "ex1" /\ Len(calls) = 2 /\ calls[2].state = "running"
    /\ args.output[Len(args.output)] # "/"

(* C9: in protgpt.py with --iterations <= 0 (and a valid --dtype) parsing  *)
(* accepts the value; once the pipeline is built, the ended run has never  *)
(* invoked it, has opened the output file and left it empty, and has       *)
(* failed with no line written and no average reported.                    *)
C9_ZeroIterations ==
    (/\ script = "gpt" /\ args.iterations <= 0 /\ ChoiceOK(args.precision))
    => /\ err # "usage"
       /\ (Ended /\ PipelineBuilt) =>
             /\ GptCalls = <<>>
             /\ opened
             /\ out_file = [exists |-> TRUE, data |-> <<>>]
             /\ pc = "failed"
             /\ written = 0 /\ ~reported

(* C10: in protgpt.py, once an invocation of the pipeline has failed, it   *)
(* is the last invocation of the run, the run has failed, the output file  *)
(* was never opened and is as the run found it.                            *)
C10_PipelineFailureLeavesFile ==
    (script = "gpt" /\ \E k \in DOMAIN GptCalls : GptCalls[k].rc # 0)
    => /\ GptCalls[Len(GptCalls)].rc # 0
       /\ \A j \in 1 .. Len(GptCalls) - 1 : GptCalls[j].rc = 0
       /\ pc = "failed" /\ err = "raised"
       /\ ~opened /\ written = 0
       /\ out_file = start.file

C10_Witness ==
    /\ script = "gpt" /\ Len(GptCalls) = 2 /\ GptCalls[2].rc # 0
    /\ start.file = OldFile /\ out_file = OldFile
-----------------------------------------------------------------------------
(* What protgpt.py does when /app/output is a directory at the start of    *)
(* the run (the case in which C3 and C9 do not fail on the missing         *)
(* directory step).                                                        *)

RECURSIVE Terminated(_)
\* each text followed by a line terminator, concatenated
Terminated(texts) ==
    IF texts = <<>> THEN <<>>
    ELSE Head(texts) \o <<"\n">> \o Terminated(Tail(texts))

\* N >= 1 successful iterations: N invocations, normal termination, and the
\* file is exactly the last iteration's texts, each followed by "\n"
FinalIterationPersistedInDirectory ==
    (/\ script = "gpt" /\ args.iterations >= 1 /\ DirReady(start.fs)
     /\ Ended /\ PipelineBuilt /\ ~AnyCallFailed)
    => /\ Len(GptCalls) = args.iterations
       /\ pc = "done" /\ reported
       /\ out_file = [exists |-> TRUE, data |-> Terminated(sequences.val)]

\* ... and its lines are those texts when none of them holds a "\n"
OnePerLineWithoutEmbeddedTerminator ==
    (/\ script = "gpt" /\ pc = "done"
     /\ \A k \in DOMAIN sequences.val : sequences.val[k] = <<"M">>)
    => Lines(out_file.data) = sequences.val

\* --iterations <= 0: no invocation, the file truncated to empty, failure
\* before any write or report
ZeroIterationsInDirectory ==
    (/\ script = "gpt" /\ args.iterations <= 0 /\ DirReady(start.fs)
     /\ Ended /\ PipelineBuilt)
    => /\ GptCalls = <<>>
       /\ opened
       /\ out_file = [exists |-> TRUE, data |-> <<>>]
       /\ pc = "failed" /\ err = "unbound"
       /\ written = 0 /\ ~reported
====
